---- MODULE Spec2Model ----
(***************************************************************************)
(* Model of package sqlitemigration (sqlitemigration.go): a pool of SQLite *)
(* connections that runs a list of migration scripts on the database       *)
(* before it hands out connections.                                        *)
(*                                                                         *)
(* The database file is modelled by its committed content (db), the        *)
(* content seen by the migrating connection (work) and that connection's   *)
(* stack of savepoints (sp).  A script is a list of statements; statement  *)
(* j of script i leaves the token <<i, j>> in the database when it runs.   *)
(***************************************************************************)
EXTENDS Integers, Sequences, FiniteSets, TLC

\* ---------------------------------------------------------------- bounds
\* Length of the application's append-only list of migration scripts.
MaxMigrations == 2
\* Number of NewPool calls made, one after the other, on the same file.
MaxRuns == 2
\* Number of times sqlitex.Open may fail in one run.
MaxOpenFails == 1
\* Number of SQL statements in each migration script.
ScriptLen == 2

\* The callers of the pool's methods.
Getters == {"g1", "g2"}
Closers == {"c1", "c2"}

\* Schema.AppID values tried, and an application_id of another application.
AppIDs == {0, 1}
ForeignAppID == 2
\* Options.PoolSize values tried.
PoolSizes == {0, 1}
\* Options.PoolSize values tried where only the size of the pool matters.
AllPoolSizes == {-1, 0, 1, 2}

ScriptIdx == 0 .. (MaxMigrations - 1)
\* The scripts that contain bad SQL: migrateDB stops at the first one, so at
\* most one script is bad.
BadSets == {{}} \cup {{i} : i \in ScriptIdx}
ForeignObj == <<-1, 0>>

VARIABLES
    \* the database file and the migrating connection
    db, work, sp, intr,
    \* the arguments of NewPool
    appID, nMig, bad, optPoolSize,
    \* Pool fields and the context of the background task
    ready, pPool, pErr, closed, cancelled, retry,
    \* the sqlitex.Pool opened by openPool
    rawOpen, rawClosed, free, mconn, mwire,
    \* the background task: openPool, migrateDB and the goroutine of NewPool
    tpc, schemaVersion, hasSchema, dbAppID, stmt, outerSaved, mErr,
    resPool, resErr, openFails,
    \* callers
    gpc, gctx, gres, cpc, cres, closedMu, hpc, hclosed, hres,
    \* history of the current run
    startCount, readyCount, errorCalls, executed, uvWrites, appIDWrites,
    migrateCalls, startDb, earlyRead, run, prevOK, prevRun

dbVars == <<db, work, sp, intr>>
argVars == <<appID, nMig, bad, optPoolSize>>
poolVars == <<ready, pPool, pErr, closed, cancelled, retry>>
rawVars == <<rawOpen, rawClosed, free, mconn, mwire>>
taskVars == <<tpc, schemaVersion, hasSchema, dbAppID, stmt, outerSaved, mErr,
              resPool, resErr, openFails>>
getVars == <<gpc, gctx, gres>>
closeVars == <<cpc, cres, closedMu>>
healthVars == <<hpc, hclosed, hres>>
histVars == <<startCount, readyCount, errorCalls, executed, uvWrites,
              appIDWrites, migrateCalls, startDb, earlyRead, run, prevOK,
                   prevRun>>
vars == <<dbVars, argVars, poolVars, rawVars, taskVars, getVars, closeVars,
          healthVars, histVars>>

\* ---------------------------------------------------------------- errors
NoErr == [kind |-> "nil", idx |-> -1]
ErrClosedBefore == [kind |-> "closedBeforeMigration", idx |-> -1]
ErrMismatch == [kind |-> "appIDMismatch", idx |-> -1]
ErrMigrate == [kind |-> "migrate", idx |-> -1]
ErrApply(i) == [kind |-> "apply", idx |-> i]
ErrOpen == [kind |-> "open", idx |-> -1]
ErrCloseAfter == [kind |-> "closeAfterFailedMigration", idx |-> -1]

\* ---------------------------------------------------------------- database
FreshDb == [appID |-> 0, userVersion |-> 0, objs |-> {}]
StartDbs ==
    { FreshDb,
      [appID |-> 0, userVersion |-> 0, objs |-> {ForeignObj}],
      [appID |-> ForeignAppID, userVersion |-> 0, objs |-> {ForeignObj}],
      [appID |-> ForeignAppID, userVersion |-> 1, objs |-> {}] }

\* The interrupt wired by SetInterrupt(ctx.Done()) makes every statement fail
\* once the context is cancelled.
Interrupted == intr /\ cancelled

\* Mutant: no savepoint is taken.
Savepoint_None(s, w) == s
\* SAVEPOINT: push the connection's current content.
Savepoint(s, w) == Append(s, w)
\* The committed content after the connection's content became w with the
\* savepoint stack s: outside any savepoint a write commits at once.
Committed(s, w) == IF s = <<>> THEN w ELSE db
\* RELEASE of the innermost savepoint.
Release(s) == SubSeq(s, 1, Len(s) - 1)
\* Mutant: ROLLBACK TO leaves the connection's content as it is.
RollbackTo_Keep(s, w) == w
\* ROLLBACK TO the innermost savepoint: the content it saved.
RollbackTo(s, w) == IF s = <<>> THEN w ELSE s[Len(s)]

\* Mutant: the default size is one connection.
realPoolSize_One(n) == IF n < 1 THEN 1 ELSE n
\* realPoolSize
realPoolSize(n) == IF n < 1 THEN 10 ELSE n

\* Mutant: every database is accepted.
AppIDAccepted_Any(id, has, want) == TRUE
\* Mutant: a database without identifier is accepted even when it has schema
\* objects.
AppIDAccepted_Unset(id, has, want) == id = want \/ id = 0
\* Mutant: a fresh database is not adopted.
AppIDAccepted_Strict(id, has, want) == id = want
\* The identifier check of migrateDB: the database belongs to this
\* application, or it is fresh (no identifier and no schema objects).
AppIDAccepted(id, has, want) == ~(id /= want /\ ~(id = 0 /\ ~has))

\* Mutant: migrateDB starts from script 0 whatever the database says.
StartVersion_Zero(w) == 0
\* The version migrateDB starts from: PRAGMA user_version.
StartVersion(w) == w.userVersion

\* Mutant: the loop runs until the version equals the number of scripts.
MoreMigrations_NotEqual(v, n) == v /= n
\* The loop condition of migrateDB.
MoreMigrations(v, n) == v < n

\* Mutant: a notification is delivered twice.
SignalCall_Twice(n) == n + 2
\* SignalFunc.call with a callback set: the callback runs once; n counts its
\* runs.
SignalCall(n) == n + 1

\* Mutant: bad SQL fails only the first time the file is opened.
StmtFails_FirstRun(i, j) == i \in bad /\ j = ScriptLen /\ run = 1
\* Statement j of script i is bad SQL.
StmtFails(i, j) == i \in bad /\ j = ScriptLen

\* What the previous NewPool on this file resolved to, with which schema,
\* and the database it left; NoRun for the first NewPool.
NoRun == [err |-> NoErr, nMig |-> -1, db |-> FreshDb]

\* ---------------------------------------------------------------- Init
\* The state after NewPool returned, for any file and schema.
InitCommon ==
    /\ db \in StartDbs
    /\ work = db
    /\ sp = <<>>
    /\ intr = FALSE
    /\ appID \in AppIDs
    /\ nMig \in 0 .. MaxMigrations
    /\ bad \in BadSets
    /\ ready = FALSE
    /\ pPool = FALSE
    /\ pErr = NoErr
    /\ closed = FALSE
    /\ cancelled = FALSE
    /\ retry = 0
    /\ rawOpen = FALSE
    /\ rawClosed = FALSE
    /\ free = 0
    /\ mconn = "pool"
    /\ mwire = "none"
    /\ tpc = "open"
    /\ schemaVersion = 0
    /\ hasSchema = FALSE
    /\ dbAppID = 0
    /\ stmt = 0
    /\ outerSaved = FALSE
    /\ mErr = NoErr
    /\ resPool = FALSE
    /\ resErr = NoErr
    /\ openFails = 0
    /\ gpc = [g \in Getters |-> "idle"]
    /\ gctx = [g \in Getters |-> FALSE]
    /\ gres = [g \in Getters |-> "none"]
    /\ cpc = [c \in Closers |-> "idle"]
    /\ cres = [c \in Closers |-> "none"]
    /\ closedMu = "free"
    /\ hpc = "idle"
    /\ hclosed = FALSE
    /\ hres = "none"
    /\ startCount = 0
    /\ readyCount = 0
    /\ errorCalls = <<>>
    /\ executed = <<>>
    /\ uvWrites = 0
    /\ appIDWrites = 0
    /\ migrateCalls = 0
    /\ startDb = db
    /\ earlyRead = FALSE
    /\ run = 1
    /\ prevOK = -1
    /\ prevRun = NoRun

InitRuns == InitCommon /\ optPoolSize \in PoolSizes

\* The same, for a pool that is not reopened: only a bad script that is part
\* of the schema matters.
Init == InitRuns /\ \A i \in bad : i < nMig

callerVars == <<getVars, closeVars, healthVars>>

\* ---------------------------------------------------------------- openPool
\* sqlitex.Open: fails (OnError, then wait for a retry) or opens the pool.
TaskOpen ==
    /\ tpc = "open"
    /\ \E ok \in BOOLEAN :
        IF ok
        THEN /\ rawOpen' = TRUE
             /\ rawClosed' = FALSE
             /\ free' = realPoolSize(optPoolSize)
             /\ mconn' = "pool"
             /\ mwire' = "none"
             /\ tpc' = "getConn"
             /\ UNCHANGED <<errorCalls, openFails>>
        ELSE /\ openFails < MaxOpenFails
             /\ errorCalls' = Append(errorCalls, ErrOpen)
             /\ openFails' = openFails + 1
             /\ tpc' = "waitRetry"
             /\ UNCHANGED rawVars
    /\ UNCHANGED <<dbVars, argVars, poolVars, callerVars, schemaVersion,
                   hasSchema, dbAppID, stmt, outerSaved, mErr, resPool, resErr,
                   startCount, readyCount, executed, uvWrites, appIDWrites,
                   migrateCalls, startDb, earlyRead, run, prevOK,
                   prevRun>>

\* Mutant: the background task does not watch its context.
CtxDone_Never(c) == FALSE
\* case <-ctx.Done(): the context of the background task is cancelled.
CtxDone(c) == c

\* Mutant: the task does not wait for a retry credit.
RetryPending_Always(r) == TRUE
\* case <-retry: the channel holds a value.
RetryPending(r) == r > 0

\* select { case <-retry: case <-ctx.Done(): return closed before ... }
TaskWaitRetry ==
    /\ tpc = "waitRetry"
    /\ \E viaRetry \in BOOLEAN :
        IF viaRetry
        THEN /\ RetryPending(retry)
             /\ retry' = retry - 1
             /\ tpc' = "open"
             /\ UNCHANGED <<resPool, resErr>>
        ELSE /\ CtxDone(cancelled)
             /\ resPool' = FALSE
             /\ resErr' = ErrClosedBefore
             /\ tpc' = "assign"
             /\ UNCHANGED retry
    /\ UNCHANGED <<dbVars, argVars, ready, pPool, pErr, closed, cancelled,
                   rawVars, callerVars, schemaVersion, hasSchema, dbAppID, stmt,
                   outerSaved, mErr, openFails, histVars>>

\* sqlitex.Pool.Get wires the connection it hands out to a context derived
\* from the one it is given: conn.SetInterrupt(ctx.Done()).
GetWire(ctx) == ctx
\* sqlitex.Pool.Put cancels that derived context: the connection goes back
\* to the free list with a closed interrupt channel.
PutWire == "dead"

\* conn := pool.Get(ctx): nil when the context is cancelled.
TaskGetConn ==
    /\ tpc = "getConn"
    /\ \E gotConn \in BOOLEAN :
        IF gotConn
        THEN /\ free > 0
             /\ free' = free - 1
             /\ mconn' = "task"
             /\ mwire' = GetWire("task")
             /\ tpc' = "mBegin"
             /\ UNCHANGED <<rawOpen, rawClosed, resPool, resErr>>
        ELSE /\ CtxDone(cancelled)
             /\ rawOpen' = FALSE
             /\ rawClosed' = TRUE
             /\ free' = 0
             /\ UNCHANGED <<mconn, mwire>>
             /\ resPool' = FALSE
             /\ resErr' = ErrClosedBefore
             /\ tpc' = "assign"
    /\ UNCHANGED <<dbVars, argVars, poolVars, callerVars, schemaVersion,
                   hasSchema, dbAppID, stmt, outerSaved, mErr, openFails,
                   histVars>>

\* ---------------------------------------------------------------- migrateDB
\* What no step of migrateDB changes.
migFrame == <<argVars, poolVars, rawVars, callerVars, resPool, resErr,
              openFails, readyCount, errorCalls, earlyRead, run, prevOK,
                   prevRun>>

\* A statement that the interrupt makes fail: when it had started to write,
\* SQLite rolls the whole transaction back (auto), otherwise the transaction
\* stays open.
InterruptedWrite(auto) ==
    /\ work' = IF auto THEN db ELSE work
    /\ sp' = IF auto THEN <<>> ELSE sp
    /\ db' = db

\* defer conn.SetInterrupt(conn.SetInterrupt(ctx.Done()))
\* defer sqlitex.Save(conn)(&err): SAVEPOINT, unless already interrupted.
MigBegin ==
    /\ tpc = "mBegin"
    /\ intr' = TRUE
    /\ outerSaved' = ~cancelled
    /\ sp' = IF cancelled THEN sp ELSE Savepoint(sp, work)
    /\ migrateCalls' = migrateCalls + 1
    /\ startDb' = db
    /\ mErr' = NoErr
    /\ tpc' = "mHasSchema"
    /\ UNCHANGED <<db, work, migFrame, schemaVersion, hasSchema, dbAppID, stmt,
                   startCount, executed, uvWrites, appIDWrites>>

\* VALUES ((SELECT COUNT(*) FROM sqlite_master) > 0)
MigHasSchema ==
    /\ tpc = "mHasSchema"
    /\ IF Interrupted
       THEN /\ mErr' = ErrMigrate
            /\ tpc' = "mDefer"
            /\ UNCHANGED hasSchema
       ELSE /\ hasSchema' = (work.objs /= {})
            /\ tpc' = "mAppID"
            /\ UNCHANGED mErr
    /\ UNCHANGED <<dbVars, migFrame, schemaVersion, dbAppID, stmt, outerSaved,
                   startCount, executed, uvWrites, appIDWrites, migrateCalls,
                   startDb>>

\* PRAGMA application_id, then the identifier check.
MigAppID ==
    /\ tpc = "mAppID"
    /\ IF Interrupted
       THEN /\ mErr' = ErrMigrate
            /\ tpc' = "mDefer"
            /\ UNCHANGED dbAppID
       ELSE /\ dbAppID' = work.appID
            /\ IF AppIDAccepted(work.appID, hasSchema, appID)
               THEN tpc' = "mUserVersion" /\ UNCHANGED mErr
               ELSE tpc' = "mDefer" /\ mErr' = ErrMismatch
    /\ UNCHANGED <<dbVars, migFrame, schemaVersion, hasSchema, stmt, outerSaved,
                   startCount, executed, uvWrites, appIDWrites, migrateCalls,
                   startDb>>

\* PRAGMA user_version
MigUserVersion ==
    /\ tpc = "mUserVersion"
    /\ IF Interrupted
       THEN /\ mErr' = ErrMigrate
            /\ tpc' = "mDefer"
            /\ UNCHANGED schemaVersion
       ELSE /\ schemaVersion' = StartVersion(work)
            /\ tpc' = "mWriteAppID"
            /\ UNCHANGED mErr
    /\ UNCHANGED <<dbVars, migFrame, hasSchema, dbAppID, stmt, outerSaved,
                   startCount, executed, uvWrites, appIDWrites, migrateCalls,
                   startDb>>

\* PRAGMA application_id = schema.AppID
MigWriteAppID ==
    /\ tpc = "mWriteAppID"
    /\ IF Interrupted
       THEN /\ \E auto \in BOOLEAN : InterruptedWrite(auto)
            /\ mErr' = ErrMigrate
            /\ tpc' = "mDefer"
            /\ UNCHANGED appIDWrites
       ELSE /\ work' = [work EXCEPT !.appID = appID]
            /\ db' = Committed(sp, work')
            /\ appIDWrites' = appIDWrites + 1
            /\ tpc' = "mOnStart"
            /\ UNCHANGED <<sp, mErr>>
    /\ UNCHANGED <<intr, migFrame, schemaVersion, hasSchema, dbAppID, stmt,
                   outerSaved, startCount, executed, uvWrites, migrateCalls,
                   startDb>>

\* Mutant: the notification is sent only when a script is going to run.
MigOnStart_IfScripts ==
    /\ tpc = "mOnStart"
    /\ startCount' = IF MoreMigrations(schemaVersion, nMig)
                      THEN SignalCall(startCount)
                      ELSE startCount
    /\ tpc' = "mLoop"
    /\ UNCHANGED <<dbVars, migFrame, schemaVersion, hasSchema, dbAppID, stmt,
                   outerSaved, mErr, executed, uvWrites, appIDWrites,
                   migrateCalls, startDb>>
\* onStart.call()
MigOnStart ==
    /\ tpc = "mOnStart"
    /\ startCount' = SignalCall(startCount)
    /\ tpc' = "mLoop"
    /\ UNCHANGED <<dbVars, migFrame, schemaVersion, hasSchema, dbAppID, stmt,
                   outerSaved, mErr, executed, uvWrites, appIDWrites,
                   migrateCalls, startDb>>

\* for schemaVersion < len(schema.Migrations): ExecScript takes its own
\* savepoint; after the loop migrateDB returns nil.
MigLoop ==
    /\ tpc = "mLoop"
    /\ IF MoreMigrations(schemaVersion, nMig)
       THEN IF Interrupted
            THEN /\ mErr' = ErrApply(schemaVersion)
                 /\ tpc' = "mDefer"
                 /\ UNCHANGED <<sp, stmt, executed>>
            ELSE /\ sp' = Savepoint(sp, work)
                 /\ stmt' = 1
                 /\ executed' = Append(executed, schemaVersion)
                 /\ tpc' = "mStmt"
                 /\ UNCHANGED mErr
       ELSE /\ tpc' = "mDefer"
            /\ UNCHANGED <<sp, stmt, executed, mErr>>
    /\ UNCHANGED <<db, work, intr, migFrame, schemaVersion, hasSchema, dbAppID,
                   outerSaved, startCount, uvWrites, appIDWrites, migrateCalls,
                   startDb>>

\* Mutant: the loop goes on after a failed script.
AfterFailedScript_Continue == "mLoop"
\* if err != nil { return ... } in the loop of migrateDB.
AfterFailedScript == "mDefer"

\* One statement of "<script>; PRAGMA user_version = <i+1>;".  A failing
\* statement ends ExecScript: ROLLBACK TO and RELEASE of its savepoint.
MigStmt ==
    /\ tpc = "mStmt"
    /\ IF Interrupted
       THEN /\ \E auto \in BOOLEAN :
                /\ work' = IF auto THEN db ELSE RollbackTo(sp, work)
                /\ sp' = IF auto THEN <<>> ELSE Release(sp)
                /\ db' = IF auto THEN db ELSE Committed(sp', work')
            /\ mErr' = ErrApply(schemaVersion)
            /\ tpc' = "mDefer"
            /\ UNCHANGED <<stmt, uvWrites>>
       ELSE IF stmt <= ScriptLen
            THEN IF StmtFails(schemaVersion, stmt)
                 THEN /\ work' = RollbackTo(sp, work)
                      /\ sp' = Release(sp)
                      /\ db' = Committed(sp', work')
                      /\ mErr' = ErrApply(schemaVersion)
                      /\ tpc' = AfterFailedScript
                      /\ UNCHANGED <<stmt, uvWrites>>
                 ELSE /\ work' = [work EXCEPT
                                    !.objs = @ \cup {<<schemaVersion, stmt>>}]
                      /\ db' = Committed(sp, work')
                      /\ stmt' = stmt + 1
                      /\ UNCHANGED <<sp, mErr, tpc, uvWrites>>
            ELSE /\ work' = [work EXCEPT !.userVersion = schemaVersion + 1]
                 /\ db' = Committed(sp, work')
                 /\ uvWrites' = uvWrites + 1
                 /\ tpc' = "mRelease"
                 /\ UNCHANGED <<sp, mErr, stmt>>
    /\ UNCHANGED <<intr, migFrame, schemaVersion, hasSchema, dbAppID,
                   outerSaved, startCount, executed, appIDWrites, migrateCalls,
                   startDb>>

\* End of ExecScript: RELEASE of its savepoint (rolled back when the RELEASE
\* is interrupted), then schemaVersion++.
MigRelease ==
    /\ tpc = "mRelease"
    /\ IF Interrupted
       THEN /\ work' = RollbackTo(sp, work)
            /\ sp' = Release(sp)
            /\ db' = Committed(sp', work')
            /\ mErr' = ErrApply(schemaVersion)
            /\ tpc' = "mDefer"
            /\ UNCHANGED schemaVersion
       ELSE /\ sp' = Release(sp)
            /\ db' = Committed(sp', work)
            /\ schemaVersion' = schemaVersion + 1
            /\ tpc' = "mLoop"
            /\ UNCHANGED <<work, mErr>>
    /\ UNCHANGED <<intr, migFrame, hasSchema, dbAppID, stmt, outerSaved,
                   startCount, executed, uvWrites, appIDWrites, migrateCalls,
                   startDb>>

\* Mutant: migrateDB leaves its interrupt on the connection.
RestoredInterrupt_Kept == TRUE
\* The deferred conn.SetInterrupt(old): the channel of migrateDB is no
\* longer the connection's interrupt.
RestoredInterrupt == FALSE

\* The deferred release of sqlitex.Save: RELEASE when err is nil, ROLLBACK TO
\* and RELEASE otherwise (and when the RELEASE is interrupted); nothing when
\* the connection is back in autocommit mode.
\* Then the deferred SetInterrupt restores the previous (empty) setting.
MigDefer ==
    /\ tpc = "mDefer"
    /\ IF ~outerSaved
       THEN /\ mErr' = IF mErr = NoErr THEN ErrMigrate ELSE mErr
            /\ UNCHANGED <<db, work, sp>>
       ELSE IF sp = <<>>
       THEN UNCHANGED <<db, work, sp, mErr>>
       ELSE IF mErr = NoErr /\ ~Interrupted
            THEN /\ sp' = Release(sp)
                 /\ db' = Committed(sp', work)
                 /\ UNCHANGED <<work, mErr>>
            ELSE /\ work' = RollbackTo(sp, work)
                 /\ sp' = Release(sp)
                 /\ db' = Committed(sp', work')
                 /\ mErr' = IF mErr = NoErr THEN ErrMigrate ELSE mErr
    /\ intr' = RestoredInterrupt
    /\ tpc' = "put"
    /\ UNCHANGED <<migFrame, schemaVersion, hasSchema, dbAppID, stmt,
                   outerSaved, startCount, executed, uvWrites, appIDWrites,
                   migrateCalls, startDb>>

\* ------------------------------------------------- openPool after migrateDB
\* Mutant: a failed migration goes round the loop like a failed open.
AfterFailedMigration_Retry == "waitRetry"
\* return nil, err: a failed migration leaves the loop of openPool.
AfterFailedMigration == "assign"

\* Mutant: the error of migrateDB is not looked at.
MigrateFailed_Never(e) == FALSE
\* if err != nil after migrateDB.
MigrateFailed(e) == e /= NoErr

\* pool.Put(conn); on error pool.Close(), whose own error goes to OnError,
\* and return nil, err.
TaskPut ==
    /\ tpc = "put"
    /\ mconn' = "pool"
    /\ mwire' = PutWire
    /\ IF MigrateFailed(mErr)
       THEN /\ rawOpen' = FALSE
            /\ rawClosed' = TRUE
            /\ free' = 0
            /\ resPool' = FALSE
            /\ resErr' = mErr
            /\ \E closeFails \in BOOLEAN :
                errorCalls' = IF closeFails
                              THEN Append(errorCalls, ErrCloseAfter)
                              ELSE errorCalls
            /\ tpc' = AfterFailedMigration
       ELSE /\ free' = free + 1
            /\ tpc' = "onReady"
            /\ UNCHANGED <<rawOpen, rawClosed, resPool, resErr, errorCalls>>
    /\ UNCHANGED <<dbVars, argVars, poolVars, callerVars, schemaVersion,
                   hasSchema, dbAppID, stmt, outerSaved, mErr, openFails,
                   startCount, readyCount, executed, uvWrites, appIDWrites,
                   migrateCalls, startDb, earlyRead, run, prevOK,
                   prevRun>>

\* opts.OnReady.call(); return pool, nil
TaskOnReady ==
    /\ tpc = "onReady"
    /\ readyCount' = SignalCall(readyCount)
    /\ resPool' = TRUE
    /\ resErr' = NoErr
    /\ tpc' = "assign"
    /\ UNCHANGED <<dbVars, argVars, poolVars, rawVars, callerVars,
                   schemaVersion, hasSchema, dbAppID, stmt, outerSaved, mErr,
                   openFails, startCount, errorCalls, executed, uvWrites,
                   appIDWrites, migrateCalls, startDb, earlyRead, run, prevOK,
                   prevRun>>

\* ------------------------------------------------- the goroutine of NewPool
\* Mutant: the goroutine does not report the error it stores.
Reports_Never(e) == FALSE
\* if p.err != nil, in the goroutine of NewPool.
Reports(e) == e /= NoErr

\* p.pool, p.err = openPool(...)
TaskAssign ==
    /\ tpc = "assign"
    /\ pPool' = resPool
    /\ pErr' = resErr
    /\ tpc' = IF Reports(resErr) THEN "report" ELSE "cancel"
    /\ UNCHANGED <<dbVars, argVars, ready, closed, cancelled, retry, rawVars,
                   callerVars, schemaVersion, hasSchema, dbAppID, stmt,
                   outerSaved, mErr, resPool, resErr, openFails, histVars>>

\* if p.err != nil { opts.OnError.call(p.err) }
TaskReport ==
    /\ tpc = "report"
    /\ errorCalls' = Append(errorCalls, pErr)
    /\ tpc' = "cancel"
    /\ UNCHANGED <<dbVars, argVars, poolVars, rawVars, callerVars,
                   schemaVersion, hasSchema, dbAppID, stmt, outerSaved, mErr,
                   resPool, resErr, openFails, startCount, readyCount,
                   executed, uvWrites, appIDWrites, migrateCalls, startDb,
                   earlyRead, run, prevOK,
                   prevRun>>

\* defer cancel()
TaskCancel ==
    /\ tpc = "cancel"
    /\ cancelled' = TRUE
    /\ tpc' = "closeReady"
    /\ UNCHANGED <<dbVars, argVars, ready, pPool, pErr, closed, retry, rawVars,
                   callerVars, schemaVersion, hasSchema, dbAppID, stmt,
                   outerSaved, mErr, resPool, resErr, openFails, histVars>>

\* defer close(ready)
TaskCloseReady ==
    /\ tpc = "closeReady"
    /\ ready' = TRUE
    /\ tpc' = "done"
    /\ UNCHANGED <<dbVars, argVars, pPool, pErr, closed, cancelled, retry,
                   rawVars, callerVars, schemaVersion, hasSchema, dbAppID, stmt,
                   outerSaved, mErr, resPool, resErr, openFails, histVars>>

\* ---------------------------------------------------------------- Pool.Get
taskFrame == <<dbVars, argVars, taskVars>>
histFrame == <<startCount, readyCount, errorCalls, executed, uvWrites,
               appIDWrites, migrateCalls, startDb, run, prevOK,
                   prevRun>>

\* The first case of Get's select: <-p.ready.
\* Mutant: Get does not wait for the ready signal.
GetSeesReady_Always(r) == TRUE
GetSeesReady(r) == r

\* A caller starts Get with a fresh context.
GetStart(g) ==
    /\ gpc[g] \in {"idle", "done"}
    /\ gpc' = [gpc EXCEPT ![g] = "gSelect"]
    /\ gctx' = [gctx EXCEPT ![g] = FALSE]
    /\ gres' = [gres EXCEPT ![g] = "none"]
    /\ UNCHANGED <<taskFrame, poolVars, rawVars, closeVars, healthVars,
                   histFrame, earlyRead>>

\* The caller's context is cancelled while Get is running.
GetCtxCancel(g) ==
    /\ gpc[g] \in {"gSelect", "gPoolGet"}
    /\ ~gctx[g]
    /\ gctx' = [gctx EXCEPT ![g] = TRUE]
    /\ UNCHANGED <<taskFrame, poolVars, rawVars, gpc, gres, closeVars,
                   healthVars, histFrame, earlyRead>>

\* select { case <-p.ready: case <-ctx.Done(): return nil, ctx.Err() }
GetSelect(g) ==
    /\ gpc[g] = "gSelect"
    /\ \E viaReady \in BOOLEAN :
        IF viaReady
        THEN /\ GetSeesReady(ready)
             /\ gpc' = [gpc EXCEPT ![g] = "gErr"]
             /\ UNCHANGED gres
        ELSE /\ gctx[g]
             /\ gpc' = [gpc EXCEPT ![g] = "done"]
             /\ gres' = [gres EXCEPT ![g] = "ctxErr"]
    /\ UNCHANGED <<taskFrame, poolVars, rawVars, gctx, closeVars, healthVars,
                   histFrame, earlyRead>>

\* if p.err != nil { return nil, wrapped p.err }
GetReadErr(g) ==
    /\ gpc[g] = "gErr"
    /\ earlyRead' = (earlyRead \/ ~ready)
    /\ IF pErr /= NoErr
       THEN /\ gpc' = [gpc EXCEPT ![g] = "done"]
            /\ gres' = [gres EXCEPT ![g] = "poolErr"]
       ELSE /\ gpc' = [gpc EXCEPT ![g] = "gPoolGet"]
            /\ UNCHANGED gres
    /\ UNCHANGED <<taskFrame, poolVars, rawVars, gctx, closeVars, healthVars,
                   histFrame>>

\* conn := p.pool.Get(ctx): a free connection, or nil when the context is
\* cancelled or the sqlitex.Pool is closed.  A nil p.pool is a fault.  The
\* connection handed out is the one the migration used (mine) or another.
GetPoolGet(g) ==
    /\ gpc[g] = "gPoolGet"
    /\ earlyRead' = (earlyRead \/ ~ready)
    /\ IF ~pPool
       THEN /\ gpc' = [gpc EXCEPT ![g] = "done"]
            /\ gres' = [gres EXCEPT ![g] = "fault"]
            /\ UNCHANGED <<free, mconn, mwire>>
       ELSE \E way \in {"conn", "ctx", "closed"}, mine \in BOOLEAN :
            /\ way = "conn" => free > 0 /\ ~rawClosed
            /\ way = "ctx" => gctx[g]
            /\ way = "closed" => rawClosed
            /\ mine => (way = "conn" /\ mconn = "pool")
            /\ (way = "conn" /\ mconn = "pool" /\ free = 1) => mine
            /\ mconn' = IF mine THEN g ELSE mconn
            /\ mwire' = IF mine THEN GetWire("caller") ELSE mwire
            /\ free' = IF way = "conn" THEN free - 1 ELSE free
            /\ gpc' = [gpc EXCEPT ![g] = IF way = "conn" THEN "holding"
                                                        ELSE "done"]
            /\ gres' = [gres EXCEPT ![g] =
                          CASE way = "conn" -> "conn"
                            [] way = "ctx" -> "ctxErr"
                            [] OTHER -> "poolClosedErr"]
    /\ UNCHANGED <<taskFrame, poolVars, rawOpen, rawClosed, gctx, closeVars,
                   healthVars, histFrame>>

\* ---------------------------------------------------------------- Pool.Put
\* Mutant: Put does not look at the ready signal.
PutSeesReady_Always(r) == TRUE
\* The select of Put: case <-p.ready, else the default case panics.
PutSeesReady(r) == r

\* if p.err != nil
PoolFailed(e) == e /= NoErr

\* select { case <-p.ready: default: panic }
PutStart(g) ==
    /\ gpc[g] = "holding"
    /\ IF PutSeesReady(ready)
       THEN /\ gpc' = [gpc EXCEPT ![g] = "pPut"]
            /\ UNCHANGED gres
       ELSE /\ gpc' = [gpc EXCEPT ![g] = "done"]
            /\ gres' = [gres EXCEPT ![g] = "panic"]
    /\ UNCHANGED <<taskFrame, poolVars, rawVars, gctx, closeVars, healthVars,
                   histFrame, earlyRead>>

\* if p.err != nil { panic }; p.pool.Put(conn)
PutRelease(g) ==
    /\ gpc[g] = "pPut"
    /\ earlyRead' = (earlyRead \/ ~ready)
    /\ gpc' = [gpc EXCEPT ![g] = "done"]
    /\ IF PoolFailed(pErr) \/ ~pPool
       THEN /\ gres' = [gres EXCEPT ![g] = "panic"]
            /\ UNCHANGED <<free, mconn, mwire>>
       ELSE /\ gres' = [gres EXCEPT ![g] = "put"]
            /\ free' = free + 1
            /\ mconn' = IF mconn = g THEN "pool" ELSE mconn
            /\ mwire' = IF mconn = g THEN PutWire ELSE mwire
    /\ UNCHANGED <<taskFrame, poolVars, rawOpen, rawClosed, gctx, closeVars,
                   healthVars, histFrame>>

\* Put called by a caller that holds no connection of this pool (a
\* connection opened elsewhere, or one already put back): the same select.
PutForeign(g) ==
    /\ gpc[g] \in {"idle", "done"}
    /\ gctx' = [gctx EXCEPT ![g] = FALSE]
    /\ IF PutSeesReady(ready)
       THEN /\ gpc' = [gpc EXCEPT ![g] = "pPutForeign"]
            /\ gres' = [gres EXCEPT ![g] = "none"]
       ELSE /\ gpc' = [gpc EXCEPT ![g] = "done"]
            /\ gres' = [gres EXCEPT ![g] = "panic"]
    /\ UNCHANGED <<taskFrame, poolVars, rawVars, closeVars, healthVars,
                   histFrame, earlyRead>>

\* if p.err != nil { panic }; p.pool.Put(conn): sqlitex.Pool.Put is called
\* and refuses a connection that is not checked out of it.
PutForeignRelease(g) ==
    /\ gpc[g] = "pPutForeign"
    /\ earlyRead' = (earlyRead \/ ~ready)
    /\ gpc' = [gpc EXCEPT ![g] = "done"]
    /\ gres' = [gres EXCEPT ![g] = IF PoolFailed(pErr) \/ ~pPool
                                   THEN "panic"
                                   ELSE "adapterPut"]
    /\ UNCHANGED <<taskFrame, poolVars, rawVars, gctx, closeVars, healthVars,
                   histFrame>>

\* ---------------------------------------------------------------- Pool.Close
\* Mutant: Close does not test the closed flag.
ClosedCheck_Skip(cl) == FALSE
\* if p.closed, under closedMu
ClosedCheck(cl) == cl

\* Mutant: the lock is released by a deferred Unlock, when Close returns.
HolderAfterFlag_Deferred(c) == c
\* closedMu.Unlock() after p.closed = true: nobody holds the lock.
HolderAfterFlag(c) == "free"

\* The lock once caller c has returned from Close.
Unlocked(mu, c) == IF mu = c THEN "free" ELSE mu

\* closedMu.Lock(); if closed return error; closed = true; closedMu.Unlock()
CloseLock(c) ==
    /\ cpc[c] = "idle"
    /\ closedMu = "free"
    /\ IF ClosedCheck(closed)
       THEN /\ cpc' = [cpc EXCEPT ![c] = "done"]
            /\ cres' = [cres EXCEPT ![c] = "alreadyClosed"]
            /\ UNCHANGED <<closed, closedMu>>
       ELSE /\ closed' = TRUE
            /\ closedMu' = HolderAfterFlag(c)
            /\ cpc' = [cpc EXCEPT ![c] = "cCancel"]
            /\ UNCHANGED cres
    /\ UNCHANGED <<taskFrame, ready, pPool, pErr, cancelled, retry, rawVars,
                   getVars, healthVars, histFrame, earlyRead>>

\* Mutant: Close does not cancel the background task.
CloseCancel_Skip(c) ==
    /\ cpc[c] = "cCancel"
    /\ cpc' = [cpc EXCEPT ![c] = "cWait"]
    /\ UNCHANGED <<taskFrame, poolVars, rawVars, getVars, cres, closedMu,
                   healthVars, histFrame, earlyRead>>

\* p.cancel()
CloseCancel(c) ==
    /\ cpc[c] = "cCancel"
    /\ cancelled' = TRUE
    /\ cpc' = [cpc EXCEPT ![c] = "cWait"]
    /\ UNCHANGED <<taskFrame, ready, pPool, pErr, closed, retry, rawVars,
                   getVars, cres, closedMu, healthVars, histFrame, earlyRead>>

\* Mutant: Close does not wait for the background task.
CloseSeesReady_Always(r) == TRUE
\* Close's wait: <-p.ready.
CloseSeesReady(r) == r

\* Mutant: Close returns without closing the sqlitex.Pool.
CloseNilPool_Always(pl) == TRUE
\* if p.pool == nil
CloseNilPool(pl) == ~pl

\* Mutant: without adapter Close returns the stored error.
NilPoolResult_StoredErr(e) == IF e /= NoErr THEN "storedErr" ELSE "nil"
\* return nil, when p.pool == nil.
NilPoolResult(e) == "nil"

\* <-p.ready; if p.pool == nil { return nil }
CloseWait(c) ==
    /\ cpc[c] = "cWait"
    /\ CloseSeesReady(ready)
    /\ earlyRead' = (earlyRead \/ ~ready)
    /\ IF CloseNilPool(pPool)
       THEN /\ cpc' = [cpc EXCEPT ![c] = "done"]
            /\ cres' = [cres EXCEPT ![c] = NilPoolResult(pErr)]
            /\ closedMu' = Unlocked(closedMu, c)
       ELSE /\ cpc' = [cpc EXCEPT ![c] = "cPoolClose"]
            /\ UNCHANGED <<cres, closedMu>>
    /\ UNCHANGED <<taskFrame, poolVars, rawVars, getVars, healthVars,
                   histFrame>>

\* return p.pool.Close(): marks the sqlitex.Pool closed ...
ClosePool(c) ==
    /\ cpc[c] = "cPoolClose"
    /\ rawClosed' = TRUE
    /\ cpc' = [cpc EXCEPT ![c] = "cDrain"]
    /\ UNCHANGED <<taskFrame, poolVars, rawOpen, free, mconn, mwire, getVars,
                   cres,
                   closedMu, healthVars, histFrame, earlyRead>>

\* ... then takes every connection from the free list and closes it.
CloseDrain(c) ==
    /\ cpc[c] = "cDrain"
    /\ free = realPoolSize(optPoolSize)
    /\ free' = 0
    /\ rawOpen' = FALSE
    /\ cpc' = [cpc EXCEPT ![c] = "done"]
    /\ \E r \in {"nil", "closeErr"} : cres' = [cres EXCEPT ![c] = r]
    /\ closedMu' = Unlocked(closedMu, c)
    /\ UNCHANGED <<taskFrame, poolVars, rawClosed, mconn, mwire, getVars,
                   healthVars, histFrame, earlyRead>>

\* ---------------------------------------------------------- Pool.CheckHealth
\* closedMu.RLock(); closed := p.closed; closedMu.RUnlock()
HealthLock ==
    /\ hpc = "idle"
    /\ closedMu = "free"
    /\ hclosed' = closed
    /\ hpc' = "hSelect"
    /\ hres' = "none"
    /\ UNCHANGED <<taskFrame, poolVars, rawVars, getVars, closeVars, histFrame,
                   earlyRead>>

\* Mutant: CheckHealth does not look at the closed flag ("closed pools may
\* report healthy").
HealthResult_ClosedHealthy(c, r, e) ==
    IF r THEN (IF e /= NoErr THEN "poolErr" ELSE "nil") ELSE "notReady"
\* Mutant: the ready signal is looked at before the closed flag.
HealthResult_ReadyFirst(c, r, e) ==
    IF r THEN (IF e /= NoErr THEN "poolErr" ELSE "nil")
    ELSE IF c THEN "closedErr" ELSE "notReady"
\* Mutant: CheckHealth does not look at the stored error.
HealthResult_NoErrCheck(c, r, e) ==
    IF c THEN "closedErr"
    ELSE IF r THEN "nil" ELSE "notReady"
\* Mutant: CheckHealth reads the stored error without receiving from ready.
HealthResult_NoSelect(c, r, e) ==
    IF c THEN "closedErr"
    ELSE IF e /= NoErr THEN "poolErr" ELSE "nil"
\* The result of CheckHealth from the closed flag it read, the ready signal
\* and the stored error.
HealthResult(c, r, e) ==
    IF c THEN "closedErr"
    ELSE IF r THEN (IF e /= NoErr THEN "poolErr" ELSE "nil")
    ELSE "notReady"

HealthSelect ==
    /\ hpc = "hSelect"
    /\ hres' = HealthResult(hclosed, ready, pErr)
    /\ hpc' = "idle"
    /\ hclosed' = FALSE
    /\ UNCHANGED <<taskFrame, poolVars, rawVars, getVars, closeVars, histFrame,
                   earlyRead>>

\* ---------------------------------------------------------------- NewPool
Max(a, b) == IF a >= b THEN a ELSE b

\* The pool has been closed and every call has returned: the application
\* opens the same file again with NewPool, with a schema of any length.
Reopen ==
    /\ run < MaxRuns
    /\ tpc = "done"
    /\ \E c \in Closers : cpc[c] = "done" /\ cres[c] /= "alreadyClosed"
    /\ \A c \in Closers : cpc[c] \in {"idle", "done"}
    /\ \A g \in Getters : gpc[g] \in {"idle", "done"}
    /\ hpc = "idle"
    /\ ~rawOpen
    /\ run' = run + 1
    /\ prevOK' = Max(prevOK, IF pPool THEN nMig ELSE -1)
    /\ prevRun' = [err |-> pErr, nMig |-> nMig, db |-> db]
    /\ nMig' \in 0 .. MaxMigrations
    /\ work' = db
    /\ sp' = <<>>
    /\ intr' = FALSE
    /\ ready' = FALSE
    /\ pPool' = FALSE
    /\ pErr' = NoErr
    /\ closed' = FALSE
    /\ cancelled' = FALSE
    /\ retry' = 0
    /\ rawClosed' = FALSE
    /\ free' = 0
    /\ mconn' = "pool"
    /\ mwire' = "none"
    /\ tpc' = "open"
    /\ schemaVersion' = 0
    /\ hasSchema' = FALSE
    /\ dbAppID' = 0
    /\ stmt' = 0
    /\ outerSaved' = FALSE
    /\ mErr' = NoErr
    /\ resPool' = FALSE
    /\ resErr' = NoErr
    /\ openFails' = 0
    /\ gpc' = [g \in Getters |-> "idle"]
    /\ gctx' = [g \in Getters |-> FALSE]
    /\ gres' = [g \in Getters |-> "none"]
    /\ cpc' = [c \in Closers |-> "idle"]
    /\ cres' = [c \in Closers |-> "none"]
    /\ closedMu' = "free"
    /\ hclosed' = FALSE
    /\ hres' = "none"
    /\ startCount' = 0
    /\ readyCount' = 0
    /\ errorCalls' = <<>>
    /\ executed' = <<>>
    /\ uvWrites' = 0
    /\ appIDWrites' = 0
    /\ migrateCalls' = 0
    /\ startDb' = db
    /\ earlyRead' = FALSE
    /\ UNCHANGED <<db, appID, bad, optPoolSize, rawOpen, hpc>>

\* ---------------------------------------------------------------- Spec
Task ==
    \/ TaskOpen
    \/ TaskWaitRetry
    \/ TaskGetConn
    \/ MigBegin
    \/ MigHasSchema
    \/ MigAppID
    \/ MigUserVersion
    \/ MigWriteAppID
    \/ MigOnStart
    \/ MigLoop
    \/ MigStmt
    \/ MigRelease
    \/ MigDefer
    \/ TaskPut
    \/ TaskOnReady
    \/ TaskAssign
    \/ TaskReport
    \/ TaskCancel
    \/ TaskCloseReady

Call ==
    \/ \E g \in {"g1"} :
        \/ GetStart(g)
        \/ GetCtxCancel(g)
        \/ GetSelect(g)
        \/ GetReadErr(g)
        \/ GetPoolGet(g)
        \/ PutStart(g)
        \/ PutRelease(g)
    \/ \E c \in {"c1"} :
        \/ CloseLock(c)
        \/ CloseCancel(c)
        \/ CloseWait(c)
        \/ ClosePool(c)
        \/ CloseDrain(c)
    \/ HealthLock
    \/ HealthSelect

\* One pool, its background task and its callers.
Next == Task \/ Call

Spec == Init /\ [][Next]_vars

\* Pools opened one after the other on the same file; the only caller closes
\* the pool, at any moment.
NextRuns ==
    \/ Task
    \/ CloseLock("c1")
    \/ CloseCancel("c1")
    \/ CloseWait("c1")
    \/ ClosePool("c1")
    \/ CloseDrain("c1")
    \/ Reopen

SpecRuns == InitRuns /\ [][NextRuns]_vars

\* One pool, its background task, and Close called by several callers at any
\* moment, one after the other or at the same time.
NextClose ==
    \/ Task
    \/ \E c \in Closers :
        \/ CloseLock(c)
        \/ CloseCancel(c)
        \/ CloseWait(c)
        \/ ClosePool(c)
        \/ CloseDrain(c)

SpecClose == Init /\ [][NextClose]_vars

\* One pool, its background task, a caller of Close and a caller that calls
\* Get and Put at any moment, Put also without holding a connection.
NextPut ==
    \/ Task
    \/ \E g \in {"g1"} :
        \/ GetStart(g)
        \/ GetCtxCancel(g)
        \/ GetSelect(g)
        \/ GetReadErr(g)
        \/ GetPoolGet(g)
        \/ PutStart(g)
        \/ PutRelease(g)
        \/ PutForeign(g)
        \/ PutForeignRelease(g)
    \/ CloseLock("c1")
    \/ CloseCancel("c1")
    \/ CloseWait("c1")
    \/ ClosePool("c1")
    \/ CloseDrain("c1")

SpecPut == Init /\ [][NextPut]_vars

\* A fresh database and good scripts, for every kind of Options.PoolSize.
InitSize ==
    /\ InitCommon
    /\ db = FreshDb
    /\ bad = {}
    /\ optPoolSize \in AllPoolSizes

\* One pool, its background task, two callers of Get and Put, and Close.
NextSize ==
    \/ Task
    \/ \E g \in Getters :
        \/ GetStart(g)
        \/ GetCtxCancel(g)
        \/ GetSelect(g)
        \/ GetReadErr(g)
        \/ GetPoolGet(g)
        \/ PutStart(g)
        \/ PutRelease(g)
    \/ CloseLock("c1")
    \/ CloseCancel("c1")
    \/ CloseWait("c1")
    \/ ClosePool("c1")
    \/ CloseDrain("c1")

SpecSize == InitSize /\ [][NextSize]_vars

\* The buffer of the retry channel: make(chan struct{}, 1).
RetryCap == 1

\* A retry trigger: a send on p.retry that does not block; it is dropped when
\* the buffer is full.
RetryTrigger ==
    /\ retry' = IF retry < RetryCap THEN retry + 1 ELSE retry
    /\ UNCHANGED <<dbVars, argVars, ready, pPool, pErr, closed, cancelled,
                   rawVars, taskVars, callerVars, histVars>>

\* One pool, its background task, retry triggers arriving at any moment and
\* a caller of Close.
NextRetry ==
    \/ Task
    \/ RetryTrigger
    \/ CloseLock("c1")
    \/ CloseCancel("c1")
    \/ CloseWait("c1")
    \/ ClosePool("c1")
    \/ CloseDrain("c1")

SpecRetry == Init /\ [][NextRetry]_vars

\* One pool, its background task, a caller of Get and Put and a caller of
\* Close.  The goroutine of NewPool and a caller inside Close, Get or Put
\* keep running while they can take a step: every driver call returns.
\* Nothing makes a caller that holds a connection call Put.
NextLive ==
    \/ Task
    \/ \E g \in {"g1"} :
        \/ GetStart(g)
        \/ GetCtxCancel(g)
        \/ GetSelect(g)
        \/ GetReadErr(g)
        \/ GetPoolGet(g)
        \/ PutStart(g)
        \/ PutRelease(g)
    \/ CloseLock("c1")
    \/ CloseCancel("c1")
    \/ CloseWait("c1")
    \/ ClosePool("c1")
    \/ CloseDrain("c1")

CloseRuns ==
    \/ CloseCancel("c1")
    \/ CloseWait("c1")
    \/ ClosePool("c1")
    \/ CloseDrain("c1")

GetRuns ==
    \E g \in {"g1"} :
        \/ GetSelect(g)
        \/ GetReadErr(g)
        \/ GetPoolGet(g)
        \/ PutRelease(g)

SpecLive ==
    /\ Init
    /\ [][NextLive]_vars
    /\ WF_vars(Task)
    /\ WF_vars(CloseRuns)
    /\ WF_vars(GetRuns)

\* ---------------------------------------------------------------- claims
\* migrateDB was called and has returned.
Returned ==
    /\ migrateCalls = 1
    /\ tpc \in {"put", "onReady", "assign", "report", "cancel", "closeReady",
                "done"}
\* Get handed a connection to caller g.
GotConn(g) == gres[g] \in {"conn", "put"}
\* The tokens left by the scripts 0 .. v-1.
Prefix(v) == {<<i, j>> : i \in 0 .. (v - 1), j \in 1 .. ScriptLen}
\* The sequence <<a, a+1, ..., b-1>>.
Range(a, b) == [k \in 1 .. (IF b > a THEN b - a ELSE 0) |-> a + k - 1]
IsPrefixOf(s, t) == Len(s) <= Len(t) /\ SubSeq(t, 1, Len(s)) = s

\* C1: Get returns a connection only after the background task has finished
\* a successful migrateDB: the pool has resolved without error, and the
\* database carries Schema.AppID and a user_version of at least
\* len(Schema.Migrations).
C1_ReadinessGate ==
    \A g \in Getters :
        gres[g] = "conn" =>
            /\ ready /\ pPool /\ pErr = NoErr
            /\ tpc = "done" /\ migrateCalls = 1 /\ mErr = NoErr
            /\ db.appID = appID
            /\ db.userVersion >= nMig

C1_Witness ==
    /\ gres["g1"] = "conn"
    /\ executed = Range(0, MaxMigrations)
    /\ db.userVersion = MaxMigrations

C3_PartialProgressKept ==
    (tpc = "put" /\ mErr.kind = "apply") =>
        /\ db.userVersion = mErr.idx
        /\ Prefix(mErr.idx) \subseteq db.objs

\* C4: in every committed state of a database that is not another
\* application's, the visible script effects are exactly those of the scripts
\* 0 .. user_version-1, complete.
C4_VersionMatchesPrefix ==
    db.appID /= ForeignAppID =>
        db.objs \ {ForeignObj} = Prefix(db.userVersion)

\* A second run is interrupted by Close in the middle of script 1.
C4_Witness ==
    /\ run = 2
    /\ tpc = "put"
    /\ closed
    /\ mErr = ErrApply(1)
    /\ stmt = 2
    /\ db.userVersion = 1

\* C5: on a database migrated successfully with N scripts, a run with N + M
\* scripts executes scripts N .. N+M-1, in order and once each, and none
\* before N; with M = 0 it executes nothing and does not write user_version.
C5_Incremental ==
    (prevOK >= 0 /\ nMig >= prevOK) =>
        /\ IsPrefixOf(executed, Range(prevOK, nMig))
        /\ (Returned /\ mErr = NoErr) => executed = Range(prevOK, nMig)
        /\ nMig = prevOK => uvWrites = 0

C5_Witness ==
    /\ prevOK = 1
    /\ nMig = 2
    /\ Returned
    /\ mErr = NoErr
    /\ executed = <<1>>
    /\ uvWrites = 1

\* What the callers see of a pool that rejected the database: no callback,
\* no write, no connection, and no healthy CheckHealth.
Rejected ==
    /\ startCount = 0 /\ readyCount = 0
    /\ executed = <<>> /\ uvWrites = 0 /\ appIDWrites = 0
    /\ db = startDb
    /\ ready => (~pPool /\ pErr /= NoErr)
    /\ (ready /\ ~closed) => pErr = ErrMismatch
    /\ \A g \in Getters : gres[g] \in {"none", "poolErr", "ctxErr"}
    /\ \A g \in Getters : (gres[g] = "poolErr" /\ ~closed) => pErr = ErrMismatch
    /\ hres /= "nil"
    /\ HealthResult(hclosed, ready, pErr) /= "nil"
    /\ HealthResult(closed, ready, pErr) /= "nil"

\* C6: a database with a non-zero application_id other than Schema.AppID is
\* rejected: the pool resolves to the identifier-mismatch error (unless Close
\* interrupts the task first), no callback fires, no script runs, nothing is
\* written, Get returns the error and CheckHealth fails.
C6_ForeignRejected ==
    (startDb.appID /= 0 /\ startDb.appID /= appID) => Rejected

C6_Witness ==
    /\ startDb.appID = ForeignAppID
    /\ ready /\ ~closed
    /\ pErr = ErrMismatch
    /\ gres["g1"] = "poolErr"
    /\ hres = "poolErr"

\* C7: a database with schema objects and application_id 0 is rejected the
\* same way when Schema.AppID is not 0, and keeps application_id 0; the
\* identifier changes only on a database with application_id 0 and no schema
\* objects.
C7_NonEmptyNotAdopted ==
    /\ (startDb.appID = 0 /\ startDb.objs /= {} /\ appID /= 0) =>
            (Rejected /\ db.appID = 0)
    /\ db.appID /= startDb.appID =>
            (startDb.appID = 0 /\ startDb.objs = {} /\ db.appID = appID)

C7_Witness ==
    /\ startDb.appID = 0
    /\ startDb.objs = {ForeignObj}
    /\ appID /= 0
    /\ ready /\ ~closed
    /\ pErr = ErrMismatch
    /\ gres["g1"] = "poolErr"
    /\ hres = "poolErr"

\* C8: a schema without migrations on a fresh database: the pool resolves
\* without error unless Close came first; when Get has returned a connection,
\* OnStartMigrate and OnReady have fired once each and the database carries
\* Schema.AppID; from then on CheckHealth returns nil until Close.
C8_FreshNoMigrations ==
    (nMig = 0 /\ startDb = FreshDb) =>
        /\ (ready /\ ~closed) => (pPool /\ pErr = NoErr)
        /\ \A g \in Getters :
            /\ (gres[g] \in {"poolErr", "poolClosedErr", "fault"}) => closed
            /\ GotConn(g) =>
                /\ startCount = 1 /\ readyCount = 1
                /\ db.appID = appID
                /\ executed = <<>>
                /\ ~closed => HealthResult(closed, ready, pErr) = "nil"
                /\ (hpc = "hSelect" /\ ~hclosed) =>
                        HealthResult(hclosed, ready, pErr) = "nil"

C8_Witness ==
    /\ nMig = 0
    /\ startDb = FreshDb
    /\ appID /= 0
    /\ gres["g1"] = "conn"
    /\ hres = "nil"
    /\ ~closed
    /\ db.appID = appID

\* C9: on a database of this application whose user_version exceeds the
\* number of scripts, migrateDB executes no script, leaves user_version and
\* the data as they are, and succeeds (unless Close interrupts it); the pool
\* then resolves without error.
C9_FutureVersion ==
    (startDb.appID = appID /\ startDb.userVersion > nMig) =>
        /\ executed = <<>> /\ uvWrites = 0
        /\ db = startDb
        /\ (Returned /\ ~closed) => mErr = NoErr
        /\ (ready /\ ~closed) => (pPool /\ pErr = NoErr)

C9_Witness ==
    /\ run = 2
    /\ startDb.userVersion = 2
    /\ nMig = 1
    /\ ready
    /\ pPool
    /\ migrateCalls = 1

C11_NotificationOrder ==
    /\ [](startCount <= 1 /\ readyCount <= 1)
    /\ [](readyCount = 1 => startCount = 1)
    /\ []((ready /\ pErr = NoErr) => readyCount = 1)
    /\ [][readyCount' /= readyCount =>
            (startCount = 1 /\ ~ready /\ ~ready' /\ ~pPool /\ ~pPool')]_vars
    /\ [][startCount' /= startCount => readyCount = 0]_vars

\* OnReady has fired and the pool is not published yet.
C11_Witness ==
    /\ startCount = 1
    /\ readyCount = 1
    /\ tpc = "assign"
    /\ ~ready
    /\ ~pPool

\* C12 as claimed: whenever OnReady has fired and Close has not been called,
\* a CheckHealth call made at that moment returns nil.
C12_ReadyImpliesQueryable ==
    (readyCount = 1 /\ ~closed) => HealthResult(closed, ready, pErr) = "nil"

\* C12 amended: whenever OnReady has fired and Close has not been called,
\* the migration has succeeded and no error is stored; a CheckHealth call
\* made at that moment returns 'not ready' while the ready signal is open
\* and nil once it is closed, and a call that read the closed flag before
\* Close never returns a stored error.
C12_ReadyThenPublished ==
    readyCount = 1 =>
        /\ mErr = NoErr /\ pErr = NoErr /\ resPool
        /\ ready => pPool
        /\ ~closed =>
            HealthResult(closed, ready, pErr) =
                (IF ready THEN "nil" ELSE "notReady")
        /\ (hpc = "hSelect" /\ ~hclosed) =>
            HealthResult(hclosed, ready, pErr) =
                (IF ready THEN "nil" ELSE "notReady")

\* CheckHealth returned 'not ready' after OnReady had fired.
C12_Witness ==
    /\ readyCount = 1
    /\ ~closed
    /\ ~ready
    /\ hpc = "idle"
    /\ hres = "notReady"
    /\ tpc = "cancel"

\* Get has returned to caller g (the caller may hold the connection).
GetReturned(g) ==
    /\ gpc[g] \in {"done", "holding"}
    /\ gres[g] \in {"conn", "ctxErr", "poolErr", "poolClosedErr", "fault"}

\* C13: Get returns only after the ready signal is closed or the caller's
\* context is cancelled; a Get whose context is cancelled returns the
\* cancellation error, whatever the state of the pool, and no connection.
C13_GetBlockingContract ==
    \A g \in Getters :
        GetReturned(g) =>
            /\ ready \/ gctx[g]
            /\ gctx[g] => gres[g] = "ctxErr"

\* The pool has resolved to an error.
ReadyError == ready /\ pErr /= NoErr

\* C14 as claimed: once the pool has resolved to an error, every Get and
\* every CheckHealth returns an error wrapping the stored error, and the pool
\* never becomes usable.
C14_AlwaysStoredError ==
    /\ [](ReadyError =>
            (~pPool /\ HealthResult(closed, ready, pErr) = "poolErr"))
    /\ [][ReadyError =>
            /\ \A g \in Getters :
                (gres'[g] /= gres[g] /\ gres'[g] /= "none") =>
                    gres'[g] = "poolErr"
            /\ (hres' /= hres /\ hres' /= "none") => hres' = "poolErr"
            /\ ReadyError' /\ pErr' = pErr]_vars

\* C14 amended: once the pool has resolved to an error it stays so, with the
\* same error and no pool.  Every Get, blocked or later, can return at once
\* and returns an error wrapping the stored error, or the cancellation error
\* when its own context is cancelled.  Every CheckHealth that read the
\* closed flag before Close set it returns an error wrapping the stored
\* error; after Close it returns the 'closed' error.
C14_FailureReported ==
    /\ [](ReadyError =>
            /\ ~pPool
            /\ HealthResult(closed, ready, pErr) =
                    (IF closed THEN "closedErr" ELSE "poolErr")
            /\ \A g \in Getters :
                /\ gpc[g] \in {"idle", "gSelect", "gErr", "done"}
                /\ gpc[g] = "gSelect" => ENABLED GetSelect(g)
                /\ gpc[g] = "gErr" => ENABLED GetReadErr(g))
    /\ [][ReadyError =>
            /\ \A g \in Getters :
                (gres'[g] /= gres[g] /\ gres'[g] /= "none") =>
                    \/ gres'[g] = "poolErr"
                    \/ gctx[g] /\ gres'[g] = "ctxErr"
            /\ (hres' /= hres /\ hres' /= "none") =>
                    hres' = (IF hclosed THEN "closedErr" ELSE "poolErr")
            /\ ReadyError' /\ pErr' = pErr]_vars

\* A failed script: Get and CheckHealth both returned the stored error.
C14_Witness ==
    /\ ReadyError
    /\ pErr = ErrApply(0)
    /\ ~closed
    /\ gpc["g1"] = "done" /\ gres["g1"] = "poolErr" /\ ~gctx["g1"]
    /\ hpc = "idle" /\ hres = "poolErr"

Effective(c) ==
    \/ cpc[c] \in {"cCancel", "cWait", "cPoolClose", "cDrain"}
    \/ cpc[c] = "done" /\ cres[c] /= "alreadyClosed"

\* C17: among the Close calls on one pool exactly one passes the closed-flag
\* check, and it is the one that cancels, waits and closes the sqlitex.Pool;
\* every other call returns 'already closed' straight from the check and
\* changes nothing.
C17_CloseOnce ==
    /\ [](Cardinality({c \in Closers : Effective(c)}) =
            (IF closed THEN 1 ELSE 0))
    /\ [](\A c \in Closers :
            (cpc[c] = "done" /\ Effective(c)) =>
                (cancelled /\ ready /\ (pPool => (rawClosed /\ ~rawOpen))))
    /\ [][\A c \in Closers :
            (cres'[c] = "alreadyClosed" /\ cres[c] /= "alreadyClosed") =>
                /\ cpc[c] = "idle" /\ cpc'[c] = "done"
                /\ \E d \in Closers \ {c} : Effective(d)
                /\ UNCHANGED <<dbVars, poolVars, rawVars, taskVars>>]_vars
    /\ [][\A c \in Closers :
            (Effective(c) /\ cpc'[c] /= cpc[c]) =>
                <<cpc[c], cpc'[c]>> \in
                    {<<"cCancel", "cWait">>, <<"cWait", "cPoolClose">>,
                     <<"cWait", "done">>, <<"cPoolClose", "cDrain">>,
                     <<"cDrain", "done">>}]_vars

\* A second Close returned 'already closed' while the first is still closing
\* the sqlitex.Pool.
C17_Witness ==
    /\ cpc["c1"] = "done"
    /\ cres["c1"] = "alreadyClosed"
    /\ cpc["c2"] = "cDrain"
    /\ rawOpen

\* The sqlitex.Pool is closed or drained by a caller of Close, not by the
\* background task (every step of the task that touches it moves tpc).
ClosedByClose ==
    /\ rawClosed' /= rawClosed \/ rawOpen' /= rawOpen
    /\ tpc' = tpc

\* C18: the Close call that passed the flag check has cancelled the task
\* before it waits; it closes the sqlitex.Pool only after the ready signal
\* is closed and the task has finished, and only when a pool is stored; and
\* when it has returned no connection opened by this Pool is open.
C18_CloseOrdering ==
    /\ [](\A c \in Closers :
            /\ (Effective(c) /\ cpc[c] /= "cCancel") => cancelled
            /\ cpc[c] \in {"cPoolClose", "cDrain"} =>
                    (ready /\ tpc = "done" /\ pPool /\ pErr = NoErr)
            /\ (Effective(c) /\ cpc[c] = "done") =>
                    (ready /\ tpc = "done" /\ ~rawOpen /\ free = 0
                     /\ (pPool => rawClosed)))
    /\ [][ClosedByClose =>
            /\ ready /\ tpc = "done" /\ pPool /\ cancelled
            /\ \E c \in Closers :
                /\ cpc[c] \in {"cPoolClose", "cDrain"}
                /\ cpc'[c] /= cpc[c]]_vars

\* Close returned after a migration that succeeded and a Get/Put of a caller.
C18_Witness ==
    /\ cpc["c1"] = "done"
    /\ cres["c1"] = "nil"
    /\ pPool
    /\ readyCount = 1
    /\ executed = Range(0, MaxMigrations)
    /\ gres["g1"] = "put"
    /\ ~rawOpen

\* A caller holds a connection it got from Get.
Held == \E g \in Getters : gpc[g] = "holding"

\* C19 as claimed: after Close on a pending pool the background task
\* finishes, the ready signal is closed and Close returns.
C19_CloseTerminates ==
    (closed /\ ~ready) ~> (tpc = "done" /\ ready /\ cpc["c1"] = "done")

\* C19 amended: after Close the background task finishes and the ready
\* signal is closed, wherever the task was when it was cancelled; Close then
\* returns, unless a caller keeps a connection it got from Get for ever.
C19_CloseTerminatesUnlessHeld ==
    /\ closed ~> (tpc = "done" /\ ready)
    /\ (closed ~> cpc["c1"] = "done") \/ <>[]Held

\* Close returned on a pool whose task was waiting for a retry.
C19_Witness ==
    /\ cpc["c1"] = "done"
    /\ cres["c1"] = "nil"
    /\ errorCalls = <<ErrOpen, ErrClosedBefore>>
    /\ tpc = "done"
    /\ ready

\* Nothing but a cancellation can make this run fail: the database is
\* accepted and no script of the schema is bad.
NoOwnFailure ==
    /\ AppIDAccepted(startDb.appID, startDb.objs /= {}, appID)
    /\ bad = {}

\* C20: when Close has cancelled the background task before OnReady, the
\* task does not reach the ready step and openPool returns the 'closed before
\* successful migration' error, wherever the task was.
C20_CancellationError ==
    (cancelled /\ readyCount = 0 /\ NoOwnFailure
        /\ tpc \in {"onReady", "assign"}) =>
            (tpc = "assign" /\ resErr = ErrClosedBefore)

\* C21: after a failed open attempt the background task tries again, so that
\* a pool that is not closed leaves the pending state.
C21_OpenRetried ==
    (openFails > 0) ~> (ready \/ closed)

\* C22: migrateDB is called at most once per pool; when it has returned an
\* error, openPool has closed its sqlitex.Pool and returns that error without
\* another open attempt, whether or not a retry trigger is pending; the pool
\* resolves to that error, and a pool resolved to an error has no open
\* connection.
C22_MigrationFailureTerminal ==
    /\ [](migrateCalls <= 1)
    /\ []((Returned /\ mErr /= NoErr /\ tpc /= "put") =>
            (resErr = mErr /\ ~resPool /\ ~rawOpen /\ rawClosed /\ free = 0))
    /\ []((ready /\ pErr /= NoErr) =>
            (~pPool /\ ~rawOpen /\ (migrateCalls = 1 => pErr = mErr)))
    /\ [][migrateCalls = 1 =>
            tpc' \notin {"open", "waitRetry", "getConn", "mBegin"}]_vars

\* A failed script with a retry trigger pending: the pool has resolved to
\* the script's error.
C22_Witness ==
    /\ ready
    /\ ~closed
    /\ pErr = ErrApply(1)
    /\ retry = 1
    /\ migrateCalls = 1
    /\ ~rawOpen

\* Caller g enters Put in this step.
PutBegins(g) ==
    /\ gpc[g] \in {"idle", "done", "holding"}
    /\ \/ gpc'[g] \in {"pPut", "pPutForeign"}
       \/ /\ gpc'[g] = "done" /\ gres'[g] = "panic"
          /\ gpc[g] /= "done" \/ gres[g] /= "panic"

\* Caller g leaves Put in this step.
PutEnds(g) ==
    /\ \/ PutBegins(g)
       \/ gpc[g] \in {"pPut", "pPutForeign"}
    /\ gpc'[g] = "done"

\* C23: a Put that starts while the ready signal is open panics; a Put on a
\* pool that resolved without a sqlitex.Pool panics; neither touches the
\* sqlitex.Pool.  Put calls sqlitex.Pool.Put exactly when the pool has
\* resolved with a sqlitex.Pool and no error.
C23_PutMisuseFatal ==
    /\ [](\A g \in Getters : gpc[g] \in {"pPut", "pPutForeign"} => ready)
    /\ [][\A g \in Getters :
            (PutBegins(g) /\ ~ready) =>
                (gpc'[g] = "done" /\ gres'[g] = "panic"
                 /\ UNCHANGED rawVars)]_vars
    /\ [][\A g \in Getters :
            PutEnds(g) =>
                IF ready /\ pPool
                THEN gres'[g] \in {"put", "adapterPut"} /\ pErr = NoErr
                ELSE gres'[g] = "panic" /\ UNCHANGED rawVars]_vars

\* Put panicked on a pool that resolved to an error.
C23_Witness ==
    /\ ready
    /\ pErr = ErrMismatch
    /\ ~closed
    /\ gpc["g1"] = "done"
    /\ gres["g1"] = "panic"

\* The Close call that passed the flag check has returned.
CloseReturned == \E c \in Closers : cpc[c] = "done" /\ Effective(c)

\* C24: with Close, Get and Put interleaved in any way, Get returns a
\* connection of the open sqlitex.Pool or an error, never through a nil
\* p.pool; once Close has returned, a Get returns an error without waiting
\* and no Get returns a connection.
C24_CloseRacingTraffic ==
    /\ [](\A g \in Getters :
            /\ gres[g] /= "fault"
            /\ GetReturned(g) =>
                gres[g] \in {"conn", "ctxErr", "poolErr", "poolClosedErr"})
    /\ [][\A g \in Getters :
            (gres'[g] = "conn" /\ gres[g] /= "conn") =>
                (pPool /\ rawOpen /\ ~rawClosed /\ free > 0
                 /\ ~CloseReturned)]_vars
    /\ [](CloseReturned =>
            \A g \in Getters :
                /\ gpc[g] = "gSelect" => ENABLED GetSelect(g)
                /\ gpc[g] = "gErr" => ENABLED GetReadErr(g)
                /\ gpc[g] = "gPoolGet" => ENABLED GetPoolGet(g))
    /\ [][CloseReturned =>
            \A g \in Getters :
                (gres'[g] /= gres[g] /\ gpc[g] \in {"gSelect", "gErr", "gPoolGet"})
                    => gres'[g] \in {"ctxErr", "poolErr", "poolClosedErr"}]_vars

\* A Get on a pool that was ready and has been closed: 'pool closed'.
C24_Witness ==
    /\ cpc["c1"] = "done"
    /\ cres["c1"] = "nil"
    /\ pPool
    /\ gpc["g1"] = "done"
    /\ gres["g1"] = "poolClosedErr"
    /\ ~gctx["g1"]

\* The callers that hold a connection handed out by Get.
Holders == {g \in Getters : gpc[g] \in {"holding", "pPut"}}

\* C25: the sqlitex.Pool of a pool that resolved without error has
\* Options.PoolSize connections when that is at least 1 and 10 otherwise:
\* until Close has closed it, the connections handed out by Get and the
\* free ones add up to that number, and at no time are more handed out.
C25_PoolSize ==
    (ready /\ pPool) =>
        /\ free >= 0
        /\ Cardinality(Holders) <=
                (IF optPoolSize >= 1 THEN optPoolSize ELSE 10)
        /\ rawOpen =>
                free + Cardinality(Holders) =
                    (IF optPoolSize >= 1 THEN optPoolSize ELSE 10)

\* A pool of one connection: one caller holds it, the other waits in Get.
C25_Witness ==
    /\ optPoolSize = 1
    /\ ready /\ pPool
    /\ gpc["g1"] = "holding"
    /\ gpc["g2"] = "gPoolGet"
    /\ free = 0

\* The previous NewPool on this file failed in a bad script, and this one
\* has the same schema.
RetryOfFailedScript ==
    /\ run > 1
    /\ prevRun.err.kind = "apply"
    /\ prevRun.err.idx \in bad
    /\ nMig = prevRun.nMig

FirstScript == startDb.userVersion

\* C27: the scripts a run executes are those from the user_version it
\* found upwards, in order and without gap or repetition; once migrateDB has
\* an error it executes no further script; an error of the loop names the
\* script it stopped at, which is the last one executed unless Close
\* interrupted before that script began; and a run that Close leaves alone
\* does not get past a bad script.
C27_ScriptOrder ==
    /\ [](executed = Range(FirstScript, FirstScript + Len(executed)))
    /\ [][(mErr /= NoErr /\ run' = run) => executed' = executed]_vars
    /\ [](mErr.kind = "apply" =>
            /\ mErr.idx = schemaVersion
            /\ \/ executed /= <<>> /\ executed[Len(executed)] = mErr.idx
               \/ closed /\ mErr.idx = FirstScript + Len(executed)
            /\ ~closed => mErr.idx \in bad)
    /\ []((Returned /\ ~closed /\ startCount = 1) =>
            \A k \in bad :
                (FirstScript <= k /\ k < nMig) => mErr = ErrApply(k))

\* The second run starts at script 1, which fails.
C27_Witness ==
    /\ run = 2
    /\ FirstScript = 1
    /\ nMig = MaxMigrations
    /\ Returned /\ ~closed
    /\ executed = <<1>>
    /\ mErr = ErrApply(1)

\* OnStartMigrate runs in this step.
StartFires == startCount' > startCount

\* The database the run found passes the identifier check: it carries
\* Schema.AppID, or it has no identifier and no schema objects.
FoundOwnOrFresh ==
    \/ startDb.appID = appID
    \/ startDb.appID = 0 /\ startDb.objs = {}

\* C28: OnStartMigrate runs only when the database found passed the
\* identifier check and application_id has been written on the connection,
\* with no error and no script executed so far; no script executes before
\* it; a migrateDB that returns nil has run it, also when it executed no
\* script; and when the check or one of the reads or the write before it
\* fails, it has not run and never runs in that run.
C28_OnStartPlacement ==
    /\ [][StartFires =>
            /\ FoundOwnOrFresh
            /\ appIDWrites = 1 /\ work.appID = appID
            /\ mErr = NoErr
            /\ executed = <<>>
            /\ startCount = 0]_vars
    /\ [](executed /= <<>> => startCount = 1)
    /\ []((Returned /\ mErr = NoErr) => startCount = 1)
    /\ [][(tpc \in {"mBegin", "mHasSchema", "mAppID", "mUserVersion",
                    "mWriteAppID"} /\ tpc' = "mDefer") =>
                (mErr' \in {ErrMismatch, ErrMigrate} /\ startCount' = 0)]_vars
    /\ [][(mErr /= NoErr /\ run' = run) => startCount' = startCount]_vars
    /\ []((Returned /\ ~FoundOwnOrFresh) =>
                /\ startCount = 0
                /\ mErr \in {ErrMismatch, ErrMigrate}
                /\ ~closed => mErr = ErrMismatch)

\* The database is already beyond the schema: the notification has been
\* sent, no script has run, and the pool is ready.
C28_Witness ==
    /\ run = 2
    /\ startDb.userVersion = 2
    /\ nMig = 1
    /\ startCount = 1
    /\ executed = <<>>
    /\ ready /\ pPool

\* C29: OnReady runs at most once; a pool that resolved with its adapter
\* has run it once and a pool that resolved with an error never; when a
\* script failed, OnStartMigrate has run once and OnReady not at all; and
\* once OnReady has run, the task holds no error and the pool resolves with
\* its adapter and without error.
C29_OnReadyMatchesOutcome ==
    /\ readyCount <= 1
    /\ (ready /\ pPool) => (readyCount = 1 /\ pErr = NoErr)
    /\ (ready /\ pErr /= NoErr) => (readyCount = 0 /\ ~pPool)
    /\ mErr.kind = "apply" => (startCount = 1 /\ readyCount = 0)
    /\ readyCount = 1 =>
            /\ mErr = NoErr /\ resErr = NoErr /\ pErr = NoErr
            /\ resPool
            /\ ready => pPool

\* The second script failed and the pool resolved to that error: one
\* OnStartMigrate, no OnReady.
C29_Witness ==
    /\ ready /\ ~closed
    /\ pErr = ErrApply(1)
    /\ executed = <<0, 1>>
    /\ startCount = 1
    /\ readyCount = 0
    /\ gres["g1"] = "poolErr"

\* The task leaves the wait of openPool for another open attempt.
OpensAgain == tpc = "waitRetry" /\ tpc' = "open"

\* What the retry credits obey whether or not the task is cancelled: at most
\* one is pending and a trigger beyond that changes nothing; a failed open
\* is reported to OnError once and the task then waits; and an open attempt
\* after the first begins only by taking the one pending credit.
CreditDiscipline ==
    /\ [](retry \in 0 .. RetryCap)
    /\ [][openFails' = openFails + 1 =>
            /\ tpc = "open" /\ tpc' = "waitRetry"
            /\ errorCalls' = Append(errorCalls, ErrOpen)]_vars
    /\ [][(tpc' = "open" /\ tpc /= "open") =>
            (OpensAgain /\ retry = 1 /\ retry' = 0)]_vars
    /\ [](tpc = "waitRetry" => Len(errorCalls) = openFails)
    /\ [][(tpc = "waitRetry" /\ tpc' = "assign") =>
            (cancelled /\ resErr' = ErrClosedBefore /\ ~resPool')]_vars

CloseWorking(c) == cpc[c] \in {"cCancel", "cWait", "cPoolClose", "cDrain"}

\* C31: no Close holds closedMu at its cancel, at its wait for the ready
\* signal or in the close of the sqlitex.Pool; so a CheckHealth call can
\* always take its first step, whatever the background task, the ready
\* signal and the callers of Close are doing, and its second step, the
\* select with a default, can always be taken too.
C31_CheckHealthNeverWaits ==
    /\ \A c \in Closers : CloseWorking(c) => closedMu /= c
    /\ hpc = "idle" => ENABLED HealthLock
    /\ hpc = "hSelect" => ENABLED HealthSelect

\* CheckHealth has returned "closed" while Close waits for the background
\* task, which is still inside migrateDB.
C31_Witness ==
    /\ cpc["c1"] = "cWait"
    /\ ~ready
    /\ tpc = "mStmt"
    /\ hpc = "idle"
    /\ hres = "closedErr"

\* C32: a pool that resolved with an error holds no adapter; the Close
\* call that set the closed flag returns nil when the pool holds no adapter,
\* whatever the stored error and whatever the close inside openPool
\* reported to OnError; with an adapter it returns what the close of the
\* adapter returned, after that close; and it returns an error only for a
\* pool that migrated without error.
C32_CloseResult ==
    /\ (ready /\ pErr /= NoErr) => ~pPool
    /\ \A c \in Closers :
        (cpc[c] = "done" /\ Effective(c)) =>
            /\ ready
            /\ ~pPool => cres[c] = "nil"
            /\ pPool => (cres[c] \in {"nil", "closeErr"} /\ rawClosed
                            /\ ~rawOpen)
            /\ (pErr /= NoErr \/ mErr /= NoErr) => cres[c] = "nil"
            /\ cres[c] /= "nil" => (pPool /\ pErr = NoErr /\ readyCount = 1)

\* The second script failed and closing the adapter inside openPool failed
\* too; Close, called afterwards, returned nil, and a second Close did not.
C32_Witness ==
    /\ pErr = ErrApply(1)
    /\ errorCalls = <<ErrCloseAfter, ErrApply(1)>>
    /\ earlyRead = FALSE
    /\ cpc["c1"] = "done" /\ cres["c1"] = "nil"
    /\ cpc["c2"] = "done" /\ cres["c2"] = "alreadyClosed"

\* The number of OnError calls made with error e.
Reported(e) ==
    Cardinality({i \in 1 .. Len(errorCalls) : errorCalls[i] = e})
\* The OnError calls made with an error other than a failed open or a failed
\* close after a failed migration.
TerminalReports ==
    {i \in 1 .. Len(errorCalls) :
        errorCalls[i].kind \notin {"open", "closeAfterFailedMigration"}}

\* C33: when the ready signal is closed on a stored error, OnError has been
\* called with that error exactly once, as its last call; so has it when a
\* Get or a CheckHealth has returned the stored error; OnError is called
\* with at most one terminal error; and a pool that resolved without error
\* has no OnError call other than those of failed opens.
C33_TerminalErrorReported ==
    /\ (ready /\ pErr /= NoErr) =>
            /\ Reported(pErr) = 1
            /\ errorCalls[Len(errorCalls)] = pErr
            /\ TerminalReports = {Len(errorCalls)}
    /\ \A g \in Getters : gres[g] = "poolErr" => Reported(pErr) = 1
    /\ hres = "poolErr" => Reported(pErr) = 1
    /\ Cardinality(TerminalReports) <= 1
    /\ (ready /\ pErr = NoErr) => TerminalReports = {}
    /\ (ready /\ pErr = NoErr) => Reported(ErrCloseAfter) = 0

\* Another application's database: the mismatch was reported once, and then
\* CheckHealth and Get returned it.
C33_Witness ==
    /\ ready /\ ~closed
    /\ pErr = ErrMismatch
    /\ errorCalls = <<ErrMismatch>>
    /\ hres = "poolErr"
    /\ gres["g1"] = "poolErr"

\* The background task is inside migrateDB, after its SetInterrupt.
MigrateRunning ==
    tpc \in {"mHasSchema", "mAppID", "mUserVersion", "mWriteAppID", "mOnStart",
             "mLoop", "mStmt", "mRelease", "mDefer"}

\* C34: the interrupt of migrateDB is on the connection in every state of
\* migrateDB and in no other state; the deferred release or rollback of the
\* run's savepoint is taken under it, so that a cancelled run rolls back;
\* migrateDB leaves the wiring that sqlitex.Pool.Get gave the connection as
\* it found it; the task's own cancel on exit changes no database content
\* and finds no connection of a published pool wired to the task; and while
\* a caller of Get holds the connection the migration used, that connection
\* is wired to the caller's Get and not to the task.
C34_InterruptScoped ==
    /\ [](MigrateRunning <=> intr)
    /\ [](MigrateRunning => mconn = "task")
    /\ [][(tpc = "mDefer" /\ tpc' = "put") => (intr /\ ~intr')]_vars
    /\ [][(tpc = "mDefer" /\ tpc' = "put" /\ cancelled) =>
                (mErr' /= NoErr /\ db' = startDb)]_vars
    /\ [][MigrateRunning => mwire' = mwire]_vars
    /\ [][(tpc = "cancel" /\ tpc' = "closeReady") =>
                /\ ~intr /\ db' = db /\ work' = work
                /\ pPool => mwire \in {"dead", "caller"}]_vars
    /\ []((tpc \in {"closeReady", "done"} /\ pPool) =>
                mwire \in {"dead", "caller"})
    /\ [](\A g \in Getters :
            mconn = g => /\ gpc[g] \in {"holding", "pPut", "done"}
                         /\ mwire = "caller"
                         /\ ~intr)

\* The task has cancelled its context on exit after a successful migration;
\* nobody called Close; a caller of Get holds the connection the migration
\* used.
C34_Witness ==
    /\ tpc = "done"
    /\ cancelled /\ ~closed
    /\ pPool
    /\ executed = <<0, 1>>
    /\ mconn = "g1"
    /\ gres["g1"] = "conn"
    /\ mwire = "caller"

====
